---------------------------- MODULE Spec2Model ----------------------------
(***************************************************************************)
(* AutoCrisp: image discovery (WebScraper.scan), download and metadata     *)
(* (WebScraper.download_image / download_all) and the scan / enhance /     *)
(* status service of app/api/routes.py.                                    *)
(*                                                                         *)
(*   SpecScan      one WebScraper instance, scan() called repeatedly       *)
(*   SpecScanOnce  one WebScraper instance, scan() called once             *)
(*   SpecDownload  one WebScraper instance, download_all() step by step    *)
(*   Spec          the HTTP service with its three in-memory maps and its  *)
(*                 background enhancement tasks                            *)
(*   SpecJobs      the same service while no DELETE /clear is requested    *)
(*   SpecPreview   the same service with GET /preview/{scan_id}/before     *)
(*   SpecReplicate one call of ImageEnhancer.enhance_with_replicate        *)
(***************************************************************************)
EXTENDS Integers, Sequences, FiniteSets, TLC

VARIABLES
    \* ---- WebScraper instance under scan() (SpecScan)
    base_url,      \* self.base_url
    html,          \* the document the site serves at base_url
    images,        \* self.images
    returned,      \* the value returned by each scan() call so far, in call order
    scan_calls,    \* number of scan() calls made on the instance
    scan_exc,      \* TRUE iff the latest scan() call raised
    \* ---- WebScraper instance under download_all() (SpecDownload)
    dl_images,     \* self.images
    dl_i,          \* index of the image download_all's loop is at
    dl_pc,         \* position inside download_image / download_all
    dl_files,      \* files written under TEMP_DIR
    dl_fetched,    \* indices whose HTTP fetch succeeded
    dl_attempted,  \* indices download_image was called for
    dl_result,     \* the list download_all returned
    dl_raised,     \* TRUE iff download_all let an exception escape
    \* ---- the service (Spec)
    scan_results,  \* routes.scan_results
    scan_urls,     \* routes.scan_urls
    job_status,    \* routes.job_status
    batches,       \* BackgroundTasks objects whose tasks are still to run
    response,      \* the response of the latest request
    requests,      \* number of requests accepted so far
    \* ---- one call of enhance_with_replicate (SpecReplicate)
    replicate      \* its locals and what the provider and time.sleep saw

scanVars == <<base_url, html, images, returned, scan_calls, scan_exc>>
dlVars   == <<dl_images, dl_i, dl_pc, dl_files, dl_fetched, dl_attempted,
              dl_result, dl_raised>>
svcVars  == <<scan_results, scan_urls, job_status, batches, response, requests>>
vars     == <<scanVars, dlVars, svcVars, replicate>>

(***************************************************************************)
(* Bounds of the model.                                                    *)
(***************************************************************************)
MaxImgTags == 2      \* <img> tags in a document
MaxSources == 1      \* <source> tags in a document
MaxBg      == 1      \* background declarations in a document
MaxScans   == 2      \* scan() calls on one WebScraper instance

(***************************************************************************)
(* Optional values: None is the empty tuple, a present value x is <<x>>.   *)
(***************************************************************************)
None    == <<>>
Some(x) == <<x>>

SeqUpTo(S, n) == UNION {[1..k -> S] : k \in 0..n}

RECURSIVE Concat(_)
Concat(ss) == IF ss = <<>> THEN <<>> ELSE Head(ss) \o Concat(Tail(ss))

(***************************************************************************)
(* URLs.  A canonical URL is [host, stem, ext]: ext is the path's trailing *)
(* ".xxx" exactly as written ("" when the path has none).  A raw reference *)
(* is absolute (it names its host), root-relative (kind "rel") or the      *)
(* empty string (kind "empty": the attribute is missing or empty).         *)
(***************************************************************************)
Url(h, s, e)    == [host |-> h, stem |-> s, ext |-> e]
AbsRef(h, s, e) == [kind |-> "abs", host |-> h, stem |-> s, ext |-> e]
RelRef(s, e)    == [kind |-> "rel", host |-> "", stem |-> s, ext |-> e]
EmptyRef        == [kind |-> "empty", host |-> "", stem |-> "", ext |-> ""]

\* str.lower() on the extensions of the model
Lower(e) ==
    CASE e = ".PNG" -> ".png"
      [] e = ".JPG" -> ".jpg"
      [] OTHER      -> e

SUPPORTED_EXTENSIONS == {".jpg", ".jpeg", ".png", ".webp", ".gif", ".bmp"}

\* WebScraper._is_valid_image_url: urlparse(url).path.lower() ends with one
\* of the supported extensions
is_valid_image_url(url) == \E ext \in SUPPORTED_EXTENSIONS : Lower(url.ext) = ext

\* WebScraper._resolve_url: urljoin(self.base_url, url)
resolve_url(base, ref) ==
    IF ref.kind = "abs" THEN Url(ref.host, ref.stem, ref.ext)
    ELSE IF ref.kind = "rel" THEN Url(base.host, ref.stem, ref.ext)
    ELSE base

\* a stand-in for the characters of a URL component
Code(s) ==
    CASE s = "x.test" -> 3   [] s = "y.test" -> 5
      [] s = "/a"     -> 7   [] s = "/b"     -> 11
      [] s = "/c"     -> 13  [] s = "/page"  -> 17
      [] s = "/other" -> 19  [] s = "/"      -> 23
      [] s = ".png"   -> 2   [] s = ".PNG"   -> 4
      [] s = ".jpg"   -> 6   [] s = ".JPG"   -> 8
      [] s = ".txt"   -> 10  [] s = ""       -> 0
      [] OTHER        -> 1

\* (mutant) an id salted with the state of the process, as the builtin
\* hash() of a string is
generate_id_salted(url) ==
    Code(url.host) * 961 + Code(url.stem) * 31 + Code(url.ext) + requests

\* WebScraper._generate_id: the first 12 hex digits of the MD5 of the URL,
\* as a number (always below 16^12).  The digest is a deterministic mix of
\* the URL's text and of nothing else.
generate_id(url) ==
    Code(url.host) * 961 + Code(url.stem) * 31 + Code(url.ext)

\* ImageInfo(id=..., original_url=..., alt_text=..., source_element=...)
ImageInfo(url, alt, src) ==
    [id |-> generate_id(url), original_url |-> url,
     local_path |-> None, width |-> None, height |-> None, file_size |-> None,
     alt_text |-> alt, source_element |-> src]

(***************************************************************************)
(* Documents.  An <img> tag is [src, data_src, data_lazy_src, alt]; a      *)
(* <source> tag is its srcset, a sequence of entries of which only the URL *)
(* token is kept; bg_inline / bg_style are the url(...) arguments matched  *)
(* in style attributes and in <style> tags.                                *)
(***************************************************************************)
Img(s, d, l, a) == [src |-> s, data_src |-> d, data_lazy_src |-> l, alt |-> a]

ImgTags ==
    { Img(RelRef("/a", ".png"), EmptyRef, EmptyRef, "logo"),
      Img(AbsRef("x.test", "/a", ".png"), EmptyRef, EmptyRef, ""),
      Img(EmptyRef, RelRef("/b", ".JPG"), EmptyRef, ""),
      Img(RelRef("/c", ".txt"), RelRef("/b", ".JPG"), EmptyRef, ""),
      Img(EmptyRef, EmptyRef, EmptyRef, "") }

SourceTags ==
    { <<RelRef("/a", ".png"), RelRef("/b", ".JPG")>>,
      <<EmptyRef, AbsRef("x.test", "/a", ".png")>>,
      <<RelRef("/c", "")>> }

BgRefs == { RelRef("/a", ".png"), AbsRef("y.test", "/b", ".JPG") }

Pages ==
    { p \in [imgs      : SeqUpTo(ImgTags, MaxImgTags),
             sources   : SeqUpTo(SourceTags, MaxSources),
             bg_inline : SeqUpTo(BgRefs, MaxBg),
             bg_style  : SeqUpTo(BgRefs, MaxBg)] :
        Len(p.bg_inline) + Len(p.bg_style) <= MaxBg }

BaseUrls == { Url("x.test", "/page", ""), Url("y.test", "/", "") }

\* img.get("src") or img.get("data-src") or img.get("data-lazy-src")
ImgSrc(img) ==
    IF img.src # EmptyRef THEN img.src
    ELSE IF img.data_src # EmptyRef THEN img.data_src
    ELSE img.data_lazy_src

\* WebScraper._extract_background_images: style attributes, then <style> tags
extract_background_images(page) == page.bg_inline \o page.bg_style

\* (mutant) the loop body without the seen_urls test
ScanStepNoSeen(st, base, ref, alt, src) ==
    IF ref = EmptyRef THEN st
    ELSE LET url == resolve_url(base, ref) IN
         IF ~is_valid_image_url(url) THEN st
         ELSE [seen   |-> st.seen \cup {url},
               images |-> Append(st.images, ImageInfo(url, alt, src))]

\* (mutant) the loop body without the _is_valid_image_url test
ScanStepNoFilter(st, base, ref, alt, src) ==
    IF ref = EmptyRef THEN st
    ELSE LET url == resolve_url(base, ref) IN
         IF url \in st.seen THEN st
         ELSE [seen   |-> st.seen \cup {url},
               images |-> Append(st.images, ImageInfo(url, alt, src))]

\* One loop body of scan(): `continue` when the reference is empty, already
\* seen or not a supported image; otherwise remember it and append.
\* st = [seen |-> seen_urls, images |-> self.images]
ScanStep(st, base, ref, alt, src) ==
    IF ref = EmptyRef THEN st
    ELSE LET url == resolve_url(base, ref) IN
         IF url \in st.seen \/ ~is_valid_image_url(url) THEN st
         ELSE [seen   |-> st.seen \cup {url},
               images |-> Append(st.images, ImageInfo(url, alt, src))]

RECURSIVE ScanImgs(_, _, _)
ScanImgs(st, base, tags) ==
    IF tags = <<>> THEN st
    ELSE ScanImgs(ScanStep(st, base, ImgSrc(Head(tags)), Head(tags).alt, "img"),
                  base, Tail(tags))

RECURSIVE ScanRefs(_, _, _, _)
ScanRefs(st, base, refs, src) ==
    IF refs = <<>> THEN st
    ELSE ScanRefs(ScanStep(st, base, Head(refs), "", src), base, Tail(refs), src)

\* (mutant) scan() running its background-image loop before the others
ScanBodyBackgroundFirst(self_images, base, page) ==
    LET s0 == [seen |-> {}, images |-> self_images]
        s1 == ScanRefs(s0, base, extract_background_images(page), "background-image")
        s2 == ScanImgs(s1, base, page.imgs)
        s3 == ScanRefs(s2, base, Concat(page.sources), "source")
    IN  s3.images

\* the body of scan() after the page was fetched: seen_urls starts empty,
\* self.images is what the instance already holds
ScanBody(self_images, base, page) ==
    LET s0 == [seen |-> {}, images |-> self_images]
        s1 == ScanImgs(s0, base, page.imgs)
        s2 == ScanRefs(s1, base, Concat(page.sources), "source")
        s3 == ScanRefs(s2, base, extract_background_images(page), "background-image")
    IN  s3.images

(***************************************************************************)
(* SpecScan: scan() on one instance.                                       *)
(***************************************************************************)
DlIdle  == /\ dl_images = <<>> /\ dl_i = 0 /\ dl_pc = "off" /\ dl_files = {}
           /\ dl_fetched = {} /\ dl_attempted = {} /\ dl_result = None
           /\ dl_raised = FALSE
NoResponse == [op |-> "none", status |-> 0, id |-> <<>>, body |-> <<>>]
SvcIdle == /\ scan_results = <<>> /\ scan_urls = <<>> /\ job_status = <<>>
           /\ batches = <<>> /\ response = NoResponse /\ requests = 0
ReplicateIdle ==
    replicate = [pc |-> "off", attempt |-> 0, errs |-> <<>>, sleeps |-> 0,
                 output |-> None, raised |-> None, result |-> None]
ScanIdle == /\ base_url = <<>> /\ html = <<>> /\ images = <<>>
            /\ returned = <<>> /\ scan_calls = 0 /\ scan_exc = FALSE

\* WebScraper.__init__
InitScan ==
    /\ base_url \in BaseUrls
    /\ html \in Pages
    /\ images = <<>>
    /\ returned = <<>>
    /\ scan_calls = 0
    /\ scan_exc = FALSE
    /\ DlIdle /\ SvcIdle /\ ReplicateIdle

\* scan(): the page is fetched and parsed, the three loops run
ScanOk ==
    /\ scan_calls < MaxScans
    /\ images' = ScanBody(images, base_url, html)
    /\ returned' = Append(returned, images')
    /\ scan_calls' = scan_calls + 1
    /\ scan_exc' = FALSE
    /\ UNCHANGED <<base_url, html, dlVars, svcVars, replicate>>

\* scan(): session.get / raise_for_status raises, scan raises Exception
ScanFetchFail ==
    /\ scan_calls < MaxScans
    /\ scan_calls' = scan_calls + 1
    /\ scan_exc' = TRUE
    /\ UNCHANGED <<base_url, html, images, returned, dlVars, svcVars, replicate>>

NextScan == ScanOk \/ ScanFetchFail

SpecScan == InitScan /\ [][NextScan]_vars

\* scan() called once on a fresh instance, as scan_url calls it
FirstScanOk        == scan_calls = 0 /\ ScanOk
FirstScanFetchFail == scan_calls = 0 /\ ScanFetchFail

NextScanOnce == FirstScanOk \/ FirstScanFetchFail

SpecScanOnce == InitScan /\ [][NextScanOnce]_vars


(***************************************************************************)
(* Properties of scan().                                                   *)
(***************************************************************************)
Range(f) == {f[i] : i \in DOMAIN f}

\* the accepted canonical URLs of the served document, by place
ImgUrls ==
    { u \in { resolve_url(base_url, ImgSrc(t)) :
                t \in {x \in Range(html.imgs) : ImgSrc(x) # EmptyRef} } :
        is_valid_image_url(u) }
SourceUrls ==
    { u \in { resolve_url(base_url, r) :
                r \in UNION {Range(t) : t \in Range(html.sources)} \ {EmptyRef} } :
        is_valid_image_url(u) }
BgUrls ==
    { u \in { resolve_url(base_url, r) :
                r \in (Range(html.bg_inline) \cup Range(html.bg_style)) \ {EmptyRef} } :
        is_valid_image_url(u) }
AcceptedUrls == ImgUrls \cup SourceUrls \cup BgUrls

\* the place a URL is first met in the examination order
FirstSource(u) ==
    IF u \in ImgUrls THEN "img"
    ELSE IF u \in SourceUrls THEN "source"
    ELSE "background-image"

\* the images the k-th successful scan() call appended to self.images
AddedBy(k) ==
    SubSeq(returned[k], (IF k = 1 THEN 0 ELSE Len(returned[k - 1])) + 1,
           Len(returned[k]))

OncePerUrl(seq) ==
    /\ Len(seq) = Cardinality(AcceptedUrls)
    /\ \A u \in AcceptedUrls :
         /\ Cardinality({i \in DOMAIN seq : seq[i].original_url = u}) = 1
         /\ \A i \in DOMAIN seq :
              seq[i].original_url = u => seq[i].source_element = FirstSource(u)

\* C1: one scan pass retains every accepted canonical URL of the page exactly
\* once, tagged with the place of its first occurrence (img, then source,
\* then background-image): this holds of the result of scan() on a fresh
\* instance (the first call) and of what each later call appends.
C1_FirstOccurrenceWins ==
    /\ returned # <<>> => OncePerUrl(returned[1])
    /\ \A k \in DOMAIN returned : OncePerUrl(AddedBy(k))

\* C1 witness: a scan has returned for a page that names the same URL in an
\* <img>, in a srcset and in a background declaration.
C1_Witness ==
    /\ returned # <<>>
    /\ \E u \in ImgUrls \cap SourceUrls \cap BgUrls :
         \E i \in DOMAIN returned[1] :
            /\ returned[1][i].original_url = u
            /\ returned[1][i].source_element = "img"

Ids(seq) == [i \in DOMAIN seq |-> seq[i].id]

\* C9: every scan() call over the same document and base URL returns the
\* same ordered sequence of image ids, also on the same instance.
C9_RescanSameIds ==
    \A j, k \in DOMAIN returned : Ids(returned[j]) = Ids(returned[k])


\* the non-empty references scan() examines, in examination order
ExaminedRefs ==
    SelectSeq([i \in DOMAIN html.imgs |-> ImgSrc(html.imgs[i])]
                \o Concat(html.sources) \o extract_background_images(html),
              LAMBDA r : r # EmptyRef)

\* a canonical URL whose path ends, whatever the case, in a listed extension
Recognized(url) ==
    Lower(url.ext) \in {".jpg", ".jpeg", ".png", ".webp", ".gif", ".bmp"}

\* the places of the examined references whose canonical URL has a
\* recognized extension
RecognizedRefs ==
    LET refs == ExaminedRefs IN
    { i \in DOMAIN refs : Recognized(resolve_url(base_url, refs[i])) }

\* C13: every image scan() holds or returns has a URL whose path ends in a
\* supported extension, no examined reference with another or no extension
\* is retained, and a scan pass retains no more images than the page has
\* references with a recognized extension.
C13_ExtensionFilter ==
    LET refs     == ExaminedRefs
        rejected == { resolve_url(base_url, refs[j]) : j \in DOMAIN refs }
                      \ { resolve_url(base_url, refs[j]) : j \in RecognizedRefs }
        count    == Cardinality(RecognizedRefs)
    IN  /\ \A i \in DOMAIN images :
              /\ Recognized(images[i].original_url)
              /\ images[i].original_url \notin rejected
        /\ \A u \in rejected : ~Recognized(u)
        /\ \A k \in DOMAIN returned :
              /\ \A i \in DOMAIN returned[k] :
                    Recognized(returned[k][i].original_url)
              /\ Len(AddedBy(k)) <= count

\* C13 witness: a scan of a page that names a .txt file and an image twice
\* has returned fewer images than the page has recognized references.
C13_Witness ==
    /\ returned # <<>> /\ returned[1] # <<>>
    /\ \E j \in DOMAIN ExaminedRefs : ExaminedRefs[j].ext = ".txt"
    /\ Len(returned[1]) < Cardinality(RecognizedRefs)

(***************************************************************************)
(* SpecDownload: download_all() on an instance whose scan() has returned.  *)
(* dl_pc is the place of control:                                          *)
(*   "loop"    download_all's for statement, dl_i the next index           *)
(*   "fetch"   download_image, before session.get (line 136)               *)
(*   "raise"   download_image raised, the exception is in download_all     *)
(*   "write"   before local_path.write_bytes (line 147)                    *)
(*   "decode"  before Image.open (line 151)                                *)
(*   "height"  image.width stored, image.height not yet (line 152)         *)
(*   "path"    before image.local_path = ... (line 156)                    *)
(*   "size"    before image.file_size = ... (line 157)                     *)
(*   "done"    download_all has returned or raised                         *)
(***************************************************************************)

\* TEMP_DIR / f"{image.id}{ext}", ext = Path(parsed.path).suffix.lower() or ".jpg"
LocalPath(image) ==
    [dir  |-> "temp",
     name |-> image.id,
     ext  |-> IF Lower(image.original_url.ext) = "" THEN ".jpg"
              ELSE Lower(image.original_url.ext)]

\* what the site serves for an image: its pixel size and its byte length
PixelSize(image)   == [width |-> 640, height |-> 480]
ContentLength(image) == 1024

\* the lists scan() returns on a fresh instance
ScannedLists == { ScanBody(<<>>, b, p) : b \in BaseUrls, p \in Pages }

InitDownload ==
    /\ dl_images \in ScannedLists
    /\ dl_i = 1
    /\ dl_pc = "loop"
    /\ dl_files = {}
    /\ dl_fetched = {}
    /\ dl_attempted = {}
    /\ dl_result = None
    /\ dl_raised = FALSE
    /\ ScanIdle /\ SvcIdle /\ ReplicateIdle

DlKeep == UNCHANGED <<scanVars, svcVars, replicate>>

\* for image in self.images: self.download_image(image)
DownloadAllCall ==
    /\ dl_pc = "loop" /\ dl_i <= Len(dl_images)
    /\ dl_attempted' = dl_attempted \cup {dl_i}
    /\ dl_pc' = "fetch"
    /\ UNCHANGED <<dl_images, dl_i, dl_files, dl_fetched, dl_result, dl_raised>>
    /\ DlKeep

\* session.get / raise_for_status raises: download_image raises Exception
FetchFail ==
    /\ dl_pc = "fetch"
    /\ dl_pc' = "raise"
    /\ UNCHANGED <<dl_images, dl_i, dl_files, dl_fetched, dl_attempted,
                   dl_result, dl_raised>>
    /\ DlKeep

FetchOk ==
    /\ dl_pc = "fetch"
    /\ dl_fetched' = dl_fetched \cup {dl_i}
    /\ dl_pc' = "write"
    /\ UNCHANGED <<dl_images, dl_i, dl_files, dl_attempted, dl_result, dl_raised>>
    /\ DlKeep

\* local_path.write_bytes(response.content)
WriteBytes ==
    /\ dl_pc = "write"
    /\ dl_files' = dl_files \cup {LocalPath(dl_images[dl_i])}
    /\ dl_pc' = "decode"
    /\ UNCHANGED <<dl_images, dl_i, dl_fetched, dl_attempted, dl_result, dl_raised>>
    /\ DlKeep

\* image.width, image.height = img.size: the first store
StoreWidth ==
    /\ dl_pc = "decode"
    /\ dl_images' = [dl_images EXCEPT
                       ![dl_i].width = Some(PixelSize(dl_images[dl_i]).width)]
    /\ dl_pc' = "height"
    /\ UNCHANGED <<dl_i, dl_files, dl_fetched, dl_attempted, dl_result, dl_raised>>
    /\ DlKeep

\* image.width, image.height = img.size: the second store
StoreHeight ==
    /\ dl_pc = "height"
    /\ dl_images' = [dl_images EXCEPT
                       ![dl_i].height = Some(PixelSize(dl_images[dl_i]).height)]
    /\ dl_pc' = "path"
    /\ UNCHANGED <<dl_i, dl_files, dl_fetched, dl_attempted, dl_result, dl_raised>>
    /\ DlKeep

\* (mutant) download_image without the try around Image.open: the decode
\* error leaves download_image
DecodeFailPropagate ==
    /\ dl_pc = "decode"
    /\ dl_pc' = "raise"
    /\ UNCHANGED <<dl_images, dl_i, dl_files, dl_fetched, dl_attempted,
                   dl_result, dl_raised>>
    /\ DlKeep

\* Image.open raises: except Exception: pass
DecodeFail ==
    /\ dl_pc = "decode"
    /\ dl_pc' = "path"
    /\ UNCHANGED <<dl_images, dl_i, dl_files, dl_fetched, dl_attempted,
                   dl_result, dl_raised>>
    /\ DlKeep

\* image.local_path = local_path
StoreLocalPath ==
    /\ dl_pc = "path"
    /\ dl_images' = [dl_images EXCEPT
                       ![dl_i].local_path = Some(LocalPath(dl_images[dl_i]))]
    /\ dl_pc' = "size"
    /\ UNCHANGED <<dl_i, dl_files, dl_fetched, dl_attempted, dl_result, dl_raised>>
    /\ DlKeep

\* image.file_size = len(response.content); return image
StoreFileSize ==
    /\ dl_pc = "size"
    /\ dl_images' = [dl_images EXCEPT
                       ![dl_i].file_size = Some(ContentLength(dl_images[dl_i]))]
    /\ dl_pc' = "loop"
    /\ dl_i' = dl_i + 1
    /\ UNCHANGED <<dl_files, dl_fetched, dl_attempted, dl_result, dl_raised>>
    /\ DlKeep

\* (mutant) download_all without its try/except: the exception escapes
DownloadAllPropagate ==
    /\ dl_pc = "raise"
    /\ dl_pc' = "done"
    /\ dl_raised' = TRUE
    /\ UNCHANGED <<dl_images, dl_i, dl_files, dl_fetched, dl_attempted, dl_result>>
    /\ DlKeep

\* except Exception as e: print(warning); the loop goes on
DownloadAllCatch ==
    /\ dl_pc = "raise"
    /\ dl_pc' = "loop"
    /\ dl_i' = dl_i + 1
    /\ UNCHANGED <<dl_images, dl_files, dl_fetched, dl_attempted, dl_result,
                   dl_raised>>
    /\ DlKeep

\* return [img for img in self.images if img.local_path is not None]
DownloadAllReturn ==
    /\ dl_pc = "loop" /\ dl_i > Len(dl_images)
    /\ dl_result' = Some(SelectSeq(dl_images, LAMBDA img : img.local_path # None))
    /\ dl_pc' = "done"
    /\ UNCHANGED <<dl_images, dl_i, dl_files, dl_fetched, dl_attempted, dl_raised>>
    /\ DlKeep

NextDownload ==
    \/ DownloadAllCall \/ FetchFail \/ FetchOk \/ WriteBytes
    \/ StoreWidth \/ StoreHeight \/ DecodeFail
    \/ StoreLocalPath \/ StoreFileSize
    \/ DownloadAllCatch \/ DownloadAllReturn

SpecDownload == InitDownload /\ [][NextDownload]_vars

(***************************************************************************)
(* Properties of download_all() / download_image().                        *)
(***************************************************************************)
\* the images at the indices in `keep`, in list order
RECURSIVE AtIndices(_, _, _)
AtIndices(seq, keep, i) ==
    IF i > Len(seq) THEN <<>>
    ELSE (IF i \in keep THEN <<seq[i]>> ELSE <<>>) \o AtIndices(seq, keep, i + 1)

\* C3: download_all never lets a per-image failure escape; once it has
\* returned it has called download_image for every image and its result is
\* exactly the images whose fetch succeeded.
C3_DownloadAllNeverAborts ==
    /\ ~dl_raised
    /\ dl_pc = "done" =>
         /\ dl_attempted = DOMAIN dl_images
         /\ dl_result = Some(AtIndices(dl_images, dl_fetched, 1))

\* C3 witness: download_all returned although some fetch failed and some
\* succeeded.
C3_Witness ==
    /\ dl_pc = "done"
    /\ dl_result # None
    /\ dl_fetched # {}
    /\ DOMAIN dl_images \ dl_fetched # {}

Untouched(img) ==
    /\ img.local_path = None /\ img.file_size = None
    /\ img.width = None /\ img.height = None
Populated(img) ==
    /\ img.local_path # None /\ img.file_size # None
    /\ (img.width = None) = (img.height = None)

\* C6: at every point of download_image each image's local_path, file_size,
\* width and height are all in their pre-download state or all in their
\* post-download state.
C6_NoPartialImage ==
    \A i \in DOMAIN dl_images : Untouched(dl_images[i]) \/ Populated(dl_images[i])

\* the images download_image is through with whose bytes were fetched and
\* written and could not be decoded: no width was ever stored
DecodeFailed ==
    { i \in dl_fetched :
        /\ (i < dl_i \/ dl_pc = "done")
        /\ dl_images[i].width = None }

\* C12: an image whose bytes were fetched and written but not decoded ends
\* with local_path and file_size set and width and height absent, nothing is
\* raised, and download_all's result includes it.
C12_DecodeFailureNonFatal ==
    /\ ~dl_raised
    /\ \A i \in DecodeFailed :
          /\ LocalPath(dl_images[i]) \in dl_files
          /\ dl_images[i].local_path = Some(LocalPath(dl_images[i]))
          /\ dl_images[i].file_size = Some(ContentLength(dl_images[i]))
          /\ dl_images[i].height = None
          /\ dl_result # None
               => \E k \in DOMAIN dl_result[1] : dl_result[1][k] = dl_images[i]

\* C12 witness: download_all returned an image without width whose file is
\* on disk, next to one that was decoded.
C12_Witness ==
    /\ dl_pc = "done" /\ dl_result # None
    /\ DecodeFailed # {}
    /\ \E k \in DOMAIN dl_result[1] :
          dl_result[1][k].width = None /\ dl_result[1][k].local_path # None
    /\ \E k \in DOMAIN dl_result[1] : dl_result[1][k].width # None


(***************************************************************************)
(* Spec: the service of app/api/routes.py.  A request handler is an async  *)
(* function that never awaits, so it runs to completion on the event loop  *)
(* and is one action.  process_enhancement is a plain function: the        *)
(* framework runs the tasks of one response one after the other on a       *)
(* worker thread, concurrently with later requests and with the tasks of   *)
(* other responses, so each of its writes to job_status is one action.     *)
(***************************************************************************)
MaxRequests == 3     \* POST / DELETE requests handled

ScanIdSpace == 100000

\* the pages scanned, and Python's hash() of their URL in this process
PageUrls == { Url("x.test", "/page", ""), Url("x.test", "/other", ""),
              Url("y.test", "/", "") }
PyHash(url) ==
    CASE url = Url("x.test", "/page", "")  -> 7
      [] url = Url("x.test", "/other", "") -> 100007
      [] OTHER                             -> -99992

\* scan_id = f"scan_{hash(url) % 100000:05d}", as the number it prints
ScanId(url) == PyHash(url) % ScanIdSpace

\* the scan ids and image ids requests may name
ScanIds  == { ScanId(u) : u \in PageUrls } \cup {99999}
ImageIds == { generate_id(Url("x.test", "/a", ".png")),
              generate_id(Url("x.test", "/b", ".JPG")),
              generate_id(Url("y.test", "/b", ".JPG")) }

\* the document each scanned page serves
ServedPage(url) ==
    CASE url = Url("x.test", "/page", "") ->
           [imgs |-> <<Img(RelRef("/a", ".png"), EmptyRef, EmptyRef, "logo")>>,
            sources |-> <<>>, bg_inline |-> <<>>, bg_style |-> <<>>]
      [] url = Url("x.test", "/other", "") ->
           [imgs |-> <<>>, sources |-> <<<<RelRef("/b", ".JPG")>>>>,
            bg_inline |-> <<>>, bg_style |-> <<>>]
      [] OTHER ->
           [imgs |-> <<Img(AbsRef("x.test", "/a", ".png"), EmptyRef, EmptyRef, "")>>,
            sources |-> <<>>, bg_inline |-> <<RelRef("/b", ".JPG")>>,
            bg_style |-> <<>>]

Outcomes == {"ok", "decode_fail", "fetch_fail"}

\* download_image on one image, by what the fetch and the decode do
DownloadImage(img, o) ==
    IF o = "fetch_fail" THEN img
    ELSE IF o = "decode_fail"
    THEN [img EXCEPT !.local_path = Some(LocalPath(img)),
                     !.file_size  = Some(ContentLength(img))]
    ELSE [img EXCEPT !.width      = Some(PixelSize(img).width),
                     !.height     = Some(PixelSize(img).height),
                     !.local_path = Some(LocalPath(img)),
                     !.file_size  = Some(ContentLength(img))]

\* (mutant) download_all returning self.images as it is
DownloadAllUnfiltered(imgs, o) ==
    [i \in DOMAIN imgs |-> DownloadImage(imgs[i], o[i])]

\* download_all: every image is tried, those with a local_path are returned
DownloadAll(imgs, o) ==
    SelectSeq([i \in DOMAIN imgs |-> DownloadImage(imgs[i], o[i])],
              LAMBDA img : img.local_path # None)

\* str(path) and Path(str)
PathStr(path) == <<path.dir, path.name, path.ext>>
PathOf(str)   == [dir |-> str[1], name |-> str[2], ext |-> str[3]]

\* the dict scan_url stores for an image
ImageDict(img) ==
    [id |-> img.id, original_url |-> img.original_url,
     local_path |-> IF img.local_path # None
                    THEN Some(PathStr(img.local_path[1])) ELSE None,
     width |-> img.width, height |-> img.height, file_size |-> img.file_size,
     alt_text |-> img.alt_text, source_element |-> img.source_element]

\* an HTTP response: the handler, the status code, the id asked about and
\* the records of the JSON body
Response(op, code, id, body) == [op |-> op, status |-> code, id |-> id, body |-> body]

\* dict assignment d[k] = v
Put(d, k, v) == [x \in DOMAIN d \cup {k} |-> IF x = k THEN v ELSE d[x]]

JobId(image_id) == <<"job_", image_id>>
JobIds == { JobId(i) : i \in ImageIds }

Task(img, scale) ==
    [job_id |-> JobId(img.id), image_path |-> PathOf(img.local_path[1]),
     image_id |-> img.id, scale |-> scale]

\* the BackgroundTasks of one response, run one after the other: the tasks
\* left and where the first one stands
Batch(tasks) == [tasks |-> tasks, pc |-> "ready"]

\* the steps of process_enhancement that can raise, with str(e)
Raises ==
    { [step |-> "ImageEnhancer",  error |-> "REPLICATE_API_TOKEN is not set"],
      [step |-> "enhance",        error |-> "Image not found"],
      [step |-> "optimize_bytes", error |-> "cannot identify image file"] }

\* str(result.output_path) of optimize_bytes(data, f"enhanced_{image_id}")
OutputPath(image_id) == <<"output", "enhanced_", image_id, "webp">>

InitSvc ==
    /\ scan_results = <<>>
    /\ scan_urls = <<>>
    /\ job_status = <<>>
    /\ batches = <<>>
    /\ response = NoResponse
    /\ requests = 0

Init == InitSvc /\ ScanIdle /\ DlIdle /\ ReplicateIdle

SvcKeep == UNCHANGED <<scanVars, dlVars, replicate>>

\* (mutant) scan_url rebinding the two stores to hold the new session alone
ScanUrlOkAlone(url, page, o) ==
    /\ requests < MaxRequests
    /\ LET downloaded == DownloadAll(ScanBody(<<>>, url, page), o)
           scan_id    == ScanId(url)
           stored     == [i \in DOMAIN downloaded |-> ImageDict(downloaded[i])]
       IN  /\ scan_urls' = Put(<<>>, scan_id, url)
           /\ scan_results' = Put(<<>>, scan_id, stored)
           /\ response' = Response("scan", 200, <<"scan_", scan_id>>, stored)
    /\ requests' = requests + 1
    /\ UNCHANGED <<job_status, batches>>
    /\ SvcKeep

\* POST /scan, the page is fetched: scan, download_all, store under scan_id
ScanUrlOk(url, page, o) ==
    /\ requests < MaxRequests
    /\ LET downloaded == DownloadAll(ScanBody(<<>>, url, page), o)
           scan_id    == ScanId(url)
           stored     == [i \in DOMAIN downloaded |-> ImageDict(downloaded[i])]
       IN  /\ scan_urls' = Put(scan_urls, scan_id, url)
           /\ scan_results' = Put(scan_results, scan_id, stored)
           /\ response' = Response("scan", 200, <<"scan_", scan_id>>, stored)
    /\ requests' = requests + 1
    /\ UNCHANGED <<job_status, batches>>
    /\ SvcKeep

\* (mutant) scan_urls[scan_id] = url done before scraper.scan() raises
ScanUrlFailStored(url) ==
    /\ requests < MaxRequests
    /\ scan_urls' = Put(scan_urls, ScanId(url), url)
    /\ response' = Response("scan", 400, <<"scan_", ScanId(url)>>, <<>>)
    /\ requests' = requests + 1
    /\ UNCHANGED <<scan_results, job_status, batches>>
    /\ SvcKeep

\* POST /scan, scraper.scan() raises: HTTPException(400)
ScanUrlFail(url) ==
    /\ requests < MaxRequests
    /\ response' = Response("scan", 400, <<"scan_", ScanId(url)>>, <<>>)
    /\ requests' = requests + 1
    /\ UNCHANGED <<scan_results, scan_urls, job_status, batches>>
    /\ SvcKeep

\* (mutant) the lookup takes the session out of the store (dict.pop)
get_scan_results_pop(scan_id) ==
    /\ response' = IF scan_id \notin DOMAIN scan_results
                   THEN Response("get_scan", 404, <<"scan_", scan_id>>, <<>>)
                   ELSE Response("get_scan", 200, <<"scan_", scan_id>>,
                                 scan_results[scan_id])
    /\ scan_results' = [k \in DOMAIN scan_results \ {scan_id} |-> scan_results[k]]
    /\ UNCHANGED <<scan_urls, job_status, batches, requests>>
    /\ SvcKeep

\* GET /scan/{scan_id}
get_scan_results(scan_id) ==
    /\ response' = IF scan_id \notin DOMAIN scan_results
                   THEN Response("get_scan", 404, <<"scan_", scan_id>>, <<>>)
                   ELSE Response("get_scan", 200, <<"scan_", scan_id>>,
                                 scan_results[scan_id])
    /\ UNCHANGED <<scan_results, scan_urls, job_status, batches, requests>>
    /\ SvcKeep

\* GET /preview/{scan_id}/before: 404 unless the id is a key of scan_urls,
\* then the page at scan_urls[scan_id] is fetched and served (500 when the
\* fetch fails)
preview_website(scan_id, fetched) ==
    /\ response' = IF scan_id \notin DOMAIN scan_urls
                   THEN Response("preview", 404, <<"scan_", scan_id>>, <<>>)
                   ELSE IF ~fetched
                   THEN Response("preview", 500, <<"scan_", scan_id>>, <<>>)
                   ELSE Response("preview", 200, <<"scan_", scan_id>>,
                                 <<[url |-> scan_urls[scan_id]]>>)
    /\ UNCHANGED <<scan_results, scan_urls, job_status, batches, requests>>
    /\ SvcKeep

\* the image dicts with this id in any stored scan
Stored(image_id) ==
    { img \in UNION { Range(scan_results[k]) : k \in DOMAIN scan_results } :
        img.id = image_id }

\* POST /enhance
enhance_image(image_id, scale) ==
    /\ requests < MaxRequests
    /\ requests' = requests + 1
    /\ IF \E img \in Stored(image_id) : img.local_path # None
       THEN \E img \in Stored(image_id) :
              /\ img.local_path # None
              /\ batches' = Append(batches, Batch(<<Task(img, scale)>>))
              /\ response' = Response("enhance", 200, <<"image", image_id>>,
                                       <<[status |-> "processing"]>>)
       ELSE /\ batches' = batches
            /\ response' = Response("enhance", 404, <<"image", image_id>>, <<>>)
    /\ UNCHANGED <<scan_results, scan_urls, job_status>>
    /\ SvcKeep

\* POST /enhance-batch
enhance_batch(scan_id, scale) ==
    /\ requests < MaxRequests
    /\ requests' = requests + 1
    /\ IF scan_id \notin DOMAIN scan_results
       THEN /\ batches' = batches
            /\ response' = Response("enhance_batch", 404, <<"scan_", scan_id>>,
                                     <<>>)
       ELSE LET with_path == SelectSeq(scan_results[scan_id],
                                       LAMBDA img : img.local_path # None)
                jobs == [i \in DOMAIN with_path |-> Task(with_path[i], scale)]
            IN  /\ batches' = IF jobs = <<>> THEN batches
                              ELSE Append(batches, Batch(jobs))
                /\ response' = Response("enhance_batch", 200, <<"scan_", scan_id>>,
                                         [i \in DOMAIN jobs |->
                                            [job_id   |-> jobs[i].job_id,
                                             image_id |-> jobs[i].image_id]])
    /\ UNCHANGED <<scan_results, scan_urls, job_status>>
    /\ SvcKeep

\* the batch after its first task ended; a batch with no task left is dropped
Advance(b) ==
    IF Len(batches[b].tasks) = 1
    THEN SubSeq(batches, 1, b - 1) \o SubSeq(batches, b + 1, Len(batches))
    ELSE [batches EXCEPT ![b] = Batch(Tail(batches[b].tasks))]

\* process_enhancement, line 109: job_status[job_id] = processing
TaskStart(b) ==
    /\ batches[b].pc = "ready"
    /\ LET t == Head(batches[b].tasks) IN
         job_status' = Put(job_status, t.job_id,
                           [status |-> "processing", image_id |-> t.image_id])
    /\ batches' = [batches EXCEPT ![b].pc = "running"]
    /\ UNCHANGED <<scan_results, scan_urls, response, requests>>
    /\ SvcKeep

\* process_enhancement, lines 112-126: enhance, optimize, completed
TaskComplete(b) ==
    /\ batches[b].pc = "running"
    /\ LET t == Head(batches[b].tasks) IN
         job_status' = Put(job_status, t.job_id,
                           [status |-> "completed", image_id |-> t.image_id,
                            output_path |-> OutputPath(t.image_id)])
    /\ batches' = Advance(b)
    /\ UNCHANGED <<scan_results, scan_urls, response, requests>>
    /\ SvcKeep

\* (mutant) process_enhancement without its except clause: the exception
\* leaves the task and nothing is written
TaskFailPropagate(b, e) ==
    /\ batches[b].pc = "running"
    /\ batches' = Advance(b)
    /\ UNCHANGED <<scan_results, scan_urls, job_status, response, requests>>
    /\ SvcKeep

\* process_enhancement, lines 112-117 and 128-133: ImageEnhancer(), enhance
\* or optimize_bytes raises e and the except clause writes failed with
\* str(e); nothing shared is read or written between the raise and the write
TaskFail(b, e) ==
    /\ batches[b].pc = "running"
    /\ LET t == Head(batches[b].tasks) IN
         job_status' = Put(job_status, t.job_id,
                           [status |-> "failed", image_id |-> t.image_id,
                            error |-> e.error])
    /\ batches' = Advance(b)
    /\ UNCHANGED <<scan_results, scan_urls, response, requests>>
    /\ SvcKeep

\* GET /status/{job_id}
get_job_status(job_id) ==
    /\ response' = IF job_id \notin DOMAIN job_status
                   THEN Response("status", 200, job_id, <<[status |-> "pending"]>>)
                   ELSE Response("status", 200, job_id, <<job_status[job_id]>>)
    /\ UNCHANGED <<scan_results, scan_urls, job_status, batches, requests>>
    /\ SvcKeep

\* (mutant) DELETE /clear without scan_urls.clear()
clear_data_keep_urls ==
    /\ requests < MaxRequests
    /\ requests' = requests + 1
    /\ scan_results' = <<>>
    /\ job_status' = <<>>
    /\ response' = Response("clear", 200, <<>>, <<[status |-> "cleared"]>>)
    /\ UNCHANGED <<scan_urls, batches>>
    /\ SvcKeep

\* DELETE /clear
clear_data ==
    /\ requests < MaxRequests
    /\ requests' = requests + 1
    /\ scan_results' = <<>>
    /\ scan_urls' = <<>>
    /\ job_status' = <<>>
    /\ response' = Response("clear", 200, <<>>, <<[status |-> "cleared"]>>)
    /\ UNCHANGED batches
    /\ SvcKeep

\* the worker threads: any batch may take its next step
RunTaskStart    == \E b \in DOMAIN batches : TaskStart(b)
RunTaskComplete == \E b \in DOMAIN batches : TaskComplete(b)
RunTaskFail     == \E b \in DOMAIN batches : \E e \in Raises : TaskFail(b, e)

\* every request and task step but DELETE /clear
NextJobs ==
    \/ \E url \in PageUrls :
         \E o \in [1..Len(ScanBody(<<>>, url, ServedPage(url))) -> Outcomes] :
            ScanUrlOk(url, ServedPage(url), o)
    \/ \E url \in PageUrls : ScanUrlFail(url)
    \/ \E scan_id \in ScanIds : get_scan_results(scan_id)
    \/ \E image_id \in ImageIds : enhance_image(image_id, 2)
    \/ \E scan_id \in ScanIds : enhance_batch(scan_id, 2)
    \/ RunTaskStart
    \/ RunTaskComplete
    \/ RunTaskFail
    \/ \E job_id \in JobIds : get_job_status(job_id)

Next == NextJobs \/ clear_data

Spec == Init /\ [][Next]_vars

\* the service while no DELETE /clear is requested
SpecJobs == Init /\ [][NextJobs]_vars

\* the service with its preview endpoint
NextPreview ==
    \/ Next
    \/ \E scan_id \in ScanIds : \E fetched \in BOOLEAN :
          preview_website(scan_id, fetched)

SpecPreview == Init /\ [][NextPreview]_vars


(***************************************************************************)
(* Properties of the service.                                              *)
(***************************************************************************)
Cleared == scan_results' = <<>> /\ scan_urls' = <<>> /\ job_status' = <<>>

\* C2: a stored session (its images and its target URL) is never changed by
\* a later step other than clear.
C2_SessionNeverReplaced ==
    [][ Cleared \/
        \A id \in DOMAIN scan_results :
           /\ id \in DOMAIN scan_results' /\ id \in DOMAIN scan_urls'
           /\ scan_results'[id] = scan_results[id]
           /\ scan_urls'[id] = scan_urls[id] ]_vars

\* the place of a job id in Pending -> Processing -> {Completed, Failed}
StatusOf(js, j) == IF j \in DOMAIN js THEN js[j].status ELSE "pending"
Rank(st) == CASE st = "pending" -> 0 [] st = "processing" -> 1 [] OTHER -> 2

\* C4: while only scans, enhance / enhance-batch requests, lookups and
\* background tasks run, a job id's status either stays what it is or moves
\* one place forward; a completed or failed job id keeps its status.
C4_StatusMovesForward ==
    [][ \A j \in JobIds :
           LET old == StatusOf(job_status, j)
               new == StatusOf(job_status', j)
           IN  \/ new = old
               \/ Rank(new) = Rank(old) + 1 ]_vars

\* C5: no two background tasks that write the same job id are running
\* (started, not finished) at the same time.
C5_OneWriterPerJobId ==
    \A b1, b2 \in DOMAIN batches :
       (/\ b1 # b2
        /\ batches[b1].pc = "running"
        /\ batches[b2].pc = "running")
       => Head(batches[b1].tasks).job_id # Head(batches[b2].tasks).job_id

\* C7: the status lookup of a job id that is not in the job store answers
\* NotFound (404), as the lookup of an unknown scan id does.
C7_UnknownJobNotFound ==
    [][ \A j \in JobIds :
          (j \notin DOMAIN job_status /\ get_job_status(j))
          => response'.status = 404 ]_vars

\* C8: every GET /scan/{scan_id} answers 200 with exactly the stored images
\* when the id is stored and 404 when it is not, and changes none of the
\* three maps.
C8_GetScanPureLookup ==
    [][ (response' # response /\ response'.op = "get_scan")
        => LET id == response'.id[2] IN
           /\ UNCHANGED <<scan_results, scan_urls, job_status>>
           /\ IF id \in DOMAIN scan_results
              THEN response'.status = 200 /\ response'.body = scan_results[id]
              ELSE response'.status = 404 /\ response'.body = <<>> ]_vars

\* C8 witness: a lookup has answered with the stored, non-empty images of a
\* session.
C8_Witness ==
    /\ response.op = "get_scan" /\ response.status = 200
    /\ response.body # <<>>
    /\ response.id[2] \in DOMAIN scan_results
    /\ response.body = scan_results[response.id[2]]

\* C10: a POST /scan whose page fetch fails answers with an error (400) and
\* leaves the session, URL and job maps as they were; no POST /scan that
\* answers with an error changes them.
C10_FailedScanStoresNothing ==
    [][ /\ \A url \in PageUrls :
             ScanUrlFail(url)
             => (response'.status = 400
                 /\ UNCHANGED <<scan_results, scan_urls, job_status>>)
        /\ (requests' # requests /\ response'.op = "scan" /\ response'.status # 200)
             => (response'.status = 400
                 /\ UNCHANGED <<scan_results, scan_urls, job_status>>) ]_vars

\* C10 witness: a scan failed while an earlier session was stored, and the
\* session is still there.
C10_Witness ==
    /\ response.op = "scan" /\ response.status = 400
    /\ scan_results # <<>>
    /\ response.id[2] \in DOMAIN scan_results

\* C11: a background task that ends has written its terminal status in that
\* very step: failed with str(e) when one of its steps raised e, completed
\* with the output path when none did; no task ends without the write.
C11_TaskEndsTerminal ==
    [][ \A b \in DOMAIN batches :
          LET t == Head(batches[b].tasks) IN
          /\ (batches[b].pc = "running" /\ batches' = Advance(b))
             => /\ t.job_id \in DOMAIN job_status'
                /\ job_status'[t.job_id].image_id = t.image_id
                /\ job_status' = Put(job_status, t.job_id, job_status'[t.job_id])
                /\ \/ /\ job_status'[t.job_id].status = "failed"
                      /\ \E e \in Raises : job_status'[t.job_id].error = e.error
                   \/ /\ job_status'[t.job_id].status = "completed"
                      /\ job_status'[t.job_id].output_path = OutputPath(t.image_id)
          /\ \A e \in Raises :
                TaskFail(b, e)
                => job_status'[t.job_id] = [status |-> "failed",
                                            image_id |-> t.image_id,
                                            error |-> e.error]
          /\ TaskComplete(b) => job_status'[t.job_id].status = "completed" ]_vars

\* C11 witness: the optimization step of a task raised and the job is
\* stored as failed with that error, the task being over.
C11_Witness ==
    /\ batches = <<>>
    /\ \E j \in DOMAIN job_status :
          /\ job_status[j].status = "failed"
          /\ job_status[j].error = "cannot identify image file"

\* every image dict held in any stored session
StoredImages == UNION { Range(scan_results[k]) : k \in DOMAIN scan_results }

\* C14: two images with the same canonical URL have the same id, whichever
\* request (scraper instance) found them, whichever form of reference named
\* them and whatever was stored before; a stored image and a scan answer
\* agree as well.
C14_IdFunctionOfUrl ==
    \A a, b \in StoredImages \cup Range(response.body) :
       ("original_url" \in DOMAIN a /\ "original_url" \in DOMAIN b
        /\ a.original_url = b.original_url)
       => a.id = b.id

\* C14 witness: two sessions hold https://x.test/a.png, one found through
\* the relative reference /a.png of x.test/page and one through the absolute
\* reference on y.test.
C14_Witness ==
    /\ ScanId(Url("x.test", "/page", "")) \in DOMAIN scan_results
    /\ ScanId(Url("y.test", "/", "")) \in DOMAIN scan_results
    /\ \E a \in Range(scan_results[ScanId(Url("x.test", "/page", ""))]) :
       \E b \in Range(scan_results[ScanId(Url("y.test", "/", ""))]) :
          /\ a.original_url = Url("x.test", "/a", ".png")
          /\ b.original_url = a.original_url
          /\ a.id = b.id

\* C15: a POST /scan that answers under scan id A leaves the images and the
\* URL stored under every other scan id B as they were, whatever requests
\* came before it.
C15_ScansDoNotInterfere ==
    [][ (requests' # requests /\ response'.op = "scan")
        => LET A == response'.id[2] IN
           /\ \A B \in DOMAIN scan_results \ {A} :
                 /\ B \in DOMAIN scan_results'
                 /\ scan_results'[B] = scan_results[B]
           /\ \A B \in DOMAIN scan_urls \ {A} :
                 /\ B \in DOMAIN scan_urls'
                 /\ scan_urls'[B] = scan_urls[B]
           /\ DOMAIN scan_results' \subseteq DOMAIN scan_results \cup {A}
           /\ DOMAIN scan_urls' \subseteq DOMAIN scan_urls \cup {A} ]_vars

\* C15 witness: a scan was stored under one id while a session with images
\* was stored under another, and both are there.
C15_Witness ==
    /\ response.op = "scan" /\ response.status = 200
    /\ response.id[2] \in DOMAIN scan_results
    /\ \E B \in DOMAIN scan_results \ {response.id[2]} :
          scan_results[B] # <<>> /\ B \in DOMAIN scan_urls

\* the place in the document where a canonical URL is first examined
FirstAt(u) ==
    CHOOSE j \in DOMAIN ExaminedRefs :
       /\ resolve_url(base_url, ExaminedRefs[j]) = u
       /\ \A k \in 1..(j - 1) : resolve_url(base_url, ExaminedRefs[k]) # u

SourceRank(src) ==
    CASE src = "img" -> 1 [] src = "source" -> 2 [] OTHER -> 3

\* what scan_url stores for the list scan() returned, per download outcome
StoredFor(seq, o) ==
    LET downloaded == DownloadAll(seq, o)
    IN  [i \in DOMAIN downloaded |-> ImageDict(downloaded[i])]

\* the index of the image with this URL in a list without duplicates
IndexOf(seq, u) == CHOOSE i \in DOMAIN seq : seq[i].original_url = u

\* C16: the list a scan returns on a fresh instance has its images in the
\* order their URLs are first examined (img tags in document order, then
\* srcset entries, then background declarations), and whatever images fail
\* to download, the list stored for the session keeps the others in that
\* order.
C16_DiscoveryOrder ==
    returned # <<>> =>
       LET seq == returned[1] IN
       /\ \A i, k \in DOMAIN seq :
             i < k => /\ FirstAt(seq[i].original_url) < FirstAt(seq[k].original_url)
                      /\ SourceRank(seq[i].source_element)
                           <= SourceRank(seq[k].source_element)
       /\ scan_calls = 1 =>
            \A o \in [DOMAIN seq -> Outcomes] :
               LET stored == StoredFor(seq, o) IN
               /\ \A i \in DOMAIN seq :
                     (o[i] # "fetch_fail")
                     = (\E k \in DOMAIN stored : stored[k].id = seq[i].id)
               /\ \A i, k \in DOMAIN stored :
                     i < k => IndexOf(seq, stored[i].original_url)
                               < IndexOf(seq, stored[k].original_url)

\* C16 witness: a scan returned an image from an <img>, one from a srcset
\* and one from a background declaration, in that order.
C16_Witness ==
    /\ returned # <<>> /\ Len(returned[1]) = 3
    /\ returned[1][1].source_element = "img"
    /\ returned[1][2].source_element = "source"
    /\ returned[1][3].source_element = "background-image"

\* the three stores as DELETE /clear leaves them
AllEmpty == scan_results = <<>> /\ scan_urls = <<>> /\ job_status = <<>>

\* C17: while the three stores are empty only a new request changes them:
\* no step of a background task dispatched before the clear puts a job
\* status back, so the status lookup keeps answering pending.
C17_ClearStaysEmpty ==
    [][ (AllEmpty /\ requests' = requests)
        => /\ scan_results' = <<>> /\ scan_urls' = <<>> /\ job_status' = <<>>
           /\ response'.op = "status" => response'.body = <<[status |-> "pending"]>>
      ]_vars

\* C19: every image record of every stored session has a local_path and a
\* file_size, every queued background task was given the local file of its
\* image, and an enhance-batch answer lists a job for every image of the
\* session.
C19_StoredImagesDownloaded ==
    /\ \A img \in StoredImages : img.local_path # None /\ img.file_size # None
    /\ \A b \in DOMAIN batches : \A i \in DOMAIN batches[b].tasks :
          LET t == batches[b].tasks[i] IN
          /\ t.image_path.dir = "temp"
          /\ t.image_path.name = t.image_id
          /\ t.job_id = JobId(t.image_id)
    /\ (response.op = "enhance_batch" /\ response.status = 200)
         => /\ response.id[2] \in DOMAIN scan_results
            /\ Len(response.body) = Len(scan_results[response.id[2]])

\* C19 witness: a session was stored without one of the images its page
\* names (the fetch failed), and enhance-batch dispatched jobs for it.
C19_Witness ==
    /\ response.op = "enhance_batch" /\ response.status = 200
    /\ response.body # <<>> /\ batches # <<>>
    /\ LET k == response.id[2] IN
         /\ k \in DOMAIN scan_results /\ k \in DOMAIN scan_urls
         /\ Len(scan_results[k])
              < Len(ScanBody(<<>>, scan_urls[k], ServedPage(scan_urls[k])))

\* C20: scan_urls and scan_results have the same keys in every state, so
\* an id the preview endpoint accepts (any answer but 404) is an id
\* GET /scan finds, and an id it rejects is one GET /scan rejects.
C20_SameKeySet ==
    /\ DOMAIN scan_urls = DOMAIN scan_results
    /\ response.op = "preview"
         => (response.status # 404) = (response.id[2] \in DOMAIN scan_results)

\* C20 witness: after three requests, the last a clear or a failed scan or
\* one more scan, the preview endpoint accepted a stored session's id.
C20_Witness ==
    /\ requests = MaxRequests
    /\ response.op = "preview" /\ response.status = 200
    /\ response.id[2] \in DOMAIN scan_results
    /\ response.body[1].url = scan_urls[response.id[2]]


(***************************************************************************)
(* SpecReplicate: one call of ImageEnhancer.enhance_with_replicate, from   *)
(* the for statement on.  replicate.pc is the place of control:            *)
(*   "call"    before self.client.run (line 112), attempt the loop index   *)
(*   "except"  in the except clause, the error is the last of errs         *)
(*   "sleep"   in time.sleep(10) (line 123)                                *)
(*   "output"  after break, before the isinstance test (line 127)          *)
(*   "done"    the method returned (result) or raised (raised)             *)
(* errs holds str(e) of every error client.run raised, in call order.      *)
(***************************************************************************)
Attempts == 3     \* for attempt in range(3)

\* str(e) of the errors the provider call raises
ProviderErrors ==
    { "429 Too Many Requests", "ReplicateError: status 429",
      "500 Internal Server Error", "Connection reset by peer",
      "Invalid version or not permitted" }

\* '429' in str(e)
Has429(e) == e \in { "429 Too Many Requests", "ReplicateError: status 429" }

\* what client.run returns: a URL string, an object with read(), or else
OutputKinds == { "str", "file", "other" }

Raised(from, error) == Some([from |-> from, error |-> error])

InitReplicate ==
    /\ replicate = [pc |-> "call", attempt |-> 0, errs |-> <<>>, sleeps |-> 0,
                    output |-> None, raised |-> None, result |-> None]
    /\ ScanIdle /\ DlIdle /\ SvcIdle

ReplicateKeep == UNCHANGED <<scanVars, dlVars, svcVars>>

\* output = self.client.run(...); break
RunReturns(kind) ==
    /\ replicate.pc = "call"
    /\ replicate' = [replicate EXCEPT !.output = Some(kind), !.pc = "output"]
    /\ ReplicateKeep

\* self.client.run(...) raises e
RunRaises(e) ==
    /\ replicate.pc = "call"
    /\ replicate' = [replicate EXCEPT !.errs = Append(@, e), !.pc = "except"]
    /\ ReplicateKeep

\* (mutant) the retry test without the '429' condition
SleepBeforeAnyRetry ==
    /\ replicate.pc = "except"
    /\ replicate.attempt < 2
    /\ replicate' = [replicate EXCEPT !.sleeps = @ + 1, !.pc = "sleep"]
    /\ ReplicateKeep

\* if '429' in str(e) and attempt < 2: time.sleep(10)
SleepBeforeRetry ==
    /\ replicate.pc = "except"
    /\ Has429(replicate.errs[Len(replicate.errs)])
    /\ replicate.attempt < 2
    /\ replicate' = [replicate EXCEPT !.sleeps = @ + 1, !.pc = "sleep"]
    /\ ReplicateKeep

\* continue: the for statement takes the next index of range(3); were there
\* none, the loop would end with output unbound
Continue ==
    /\ replicate.pc = "sleep"
    /\ replicate' =
         IF replicate.attempt + 1 < Attempts
         THEN [replicate EXCEPT !.attempt = @ + 1, !.pc = "call"]
         ELSE [replicate EXCEPT !.pc = "done",
                 !.raised = Raised("unbound", "UnboundLocalError")]
    /\ ReplicateKeep

\* raise: the error is not a 429 or this was the third attempt
Reraise ==
    /\ replicate.pc = "except"
    /\ ~(Has429(replicate.errs[Len(replicate.errs)]) /\ replicate.attempt < 2)
    /\ replicate' = [replicate EXCEPT !.pc = "done",
                       !.raised = Raised("run", replicate.errs[Len(replicate.errs)])]
    /\ ReplicateKeep

\* isinstance(output, str): requests.get(output) answers, return its content
FetchOutput ==
    /\ replicate.pc = "output" /\ replicate.output = Some("str")
    /\ replicate' = [replicate EXCEPT !.pc = "done", !.result = Some("content")]
    /\ ReplicateKeep

\* isinstance(output, str): requests.get / raise_for_status raises
FetchOutputRaises ==
    /\ replicate.pc = "output" /\ replicate.output = Some("str")
    /\ replicate' = [replicate EXCEPT !.pc = "done",
                       !.raised = Raised("fetch", "HTTPError")]
    /\ ReplicateKeep

\* hasattr(output, 'read'): return output.read()
ReadOutput ==
    /\ replicate.pc = "output" /\ replicate.output = Some("file")
    /\ replicate' = [replicate EXCEPT !.pc = "done", !.result = Some("read")]
    /\ ReplicateKeep

\* raise ValueError(f"Unexpected output type from Replicate: ...")
UnexpectedOutput ==
    /\ replicate.pc = "output" /\ replicate.output = Some("other")
    /\ replicate' = [replicate EXCEPT !.pc = "done",
                       !.raised = Raised("type", "Unexpected output type from Replicate")]
    /\ ReplicateKeep

NextReplicate ==
    \/ \E kind \in OutputKinds : RunReturns(kind)
    \/ \E e \in ProviderErrors : RunRaises(e)
    \/ SleepBeforeRetry
    \/ Continue
    \/ Reraise
    \/ FetchOutput
    \/ FetchOutputRaises
    \/ ReadOutput
    \/ UnexpectedOutput

SpecReplicate == InitReplicate /\ [][NextReplicate]_vars

\* the provider calls made so far: those that raised and the one that returned
ProviderCalls == Len(replicate.errs) + (IF replicate.output # None THEN 1 ELSE 0)

\* C18: the loop makes at most 3 provider calls and at most 2 sleeps; a call
\* is repeated only after a '429' error on the first or second attempt, one
\* sleep before each repeat; any other error, and a '429' on the third
\* attempt, is raised at once; the first call that returns is the last call.
C18_RetryAtMostThreeCalls ==
    LET errs == replicate.errs
        last == errs[Len(errs)]
    IN  /\ ProviderCalls <= 3 /\ replicate.sleeps <= 2
        /\ replicate.attempt < Attempts
        /\ \A i \in 1..(Len(errs) - 1) : Has429(errs[i])
        /\ replicate.pc = "call"
             => /\ replicate.output = None
                /\ Len(errs) = replicate.attempt
                /\ replicate.sleeps = replicate.attempt
        /\ replicate.pc = "sleep"
             => Has429(last) /\ Len(errs) <= 2 /\ replicate.sleeps = Len(errs)
        /\ replicate.output # None
             => /\ \A i \in DOMAIN errs : Has429(errs[i])
                /\ ProviderCalls = replicate.sleeps + 1
        /\ replicate.pc = "done"
             => /\ (replicate.raised = None) # (replicate.result = None)
                /\ ProviderCalls = replicate.sleeps + 1
                /\ replicate.result # None => replicate.output # None
                /\ replicate.raised # None
                     => /\ replicate.raised[1].from # "unbound"
                        /\ (replicate.raised[1].from = "run")
                             = (replicate.output = None)
                        /\ replicate.raised[1].from = "run"
                             => /\ replicate.raised[1].error = last
                                /\ ~Has429(last) \/ Len(errs) = 3

\* C18 witness: two calls raised a '429' error, each was followed by one
\* sleep, and the third call raised a '429' error that went to the caller.
C18_Witness ==
    /\ replicate.pc = "done"
    /\ Len(replicate.errs) = 3 /\ replicate.sleeps = 2
    /\ replicate.raised # None
    /\ replicate.raised[1].from = "run" /\ Has429(replicate.raised[1].error)

=============================================================================
